---- MODULE Spec2Model ----
(***************************************************************************)
(* Corpspeak streaming demo: the callable server handler generateCorpspeak *)
(* (functions/src/index.ts) and the web client's request handlers          *)
(* (web/src/main.ts).  Text is a sequence of one-character strings.        *)
(***************************************************************************)
EXTENDS Integers, Sequences, FiniteSets, TLC

\* ------------------------------------------------------------------ bounds
MaxLen == 2
MaxFrags == 2
MaxClicks == 1

\* ------------------------------------------------------------------ text
Chars == {"a", " "}

Texts(n) == UNION {[1..k -> Chars] : k \in 0..n}

IsSpace(ch) == ch = " "

RECURSIVE TrimStart(_)
TrimStart(s) ==
  IF s = <<>> THEN <<>>
  ELSE IF IsSpace(Head(s)) THEN TrimStart(Tail(s)) ELSE s

RECURSIVE TrimEnd(_)
TrimEnd(s) ==
  IF s = <<>> THEN <<>>
  ELSE IF IsSpace(s[Len(s)]) THEN TrimEnd(SubSeq(s, 1, Len(s) - 1)) ELSE s

\* String.prototype.trim
Trim(s) == TrimEnd(TrimStart(s))

\* JavaScript truthiness of a string: only "" is falsy
Truthy(s) == s # <<>>

\* --------------------------------------------------------- request values
\* A JavaScript value that can sit in req.data.prompt
Undefined == [t |-> "undefined", v |-> <<>>]

Num == [t |-> "number", v |-> <<>>]

Str(s) == [t |-> "string", v |-> s]

PromptValues == {Undefined, Num} \cup {Str(s) : s \in Texts(MaxLen)}

\* req.data: null (a call without argument), a primitive, or an object
DataValues ==
  {[t |-> "null", prompt |-> Undefined], [t |-> "number", prompt |-> Undefined]}
    \cup {[t |-> "object", prompt |-> p] : p \in PromptValues}

NoData == [t |-> "none", prompt |-> Undefined]

\* ------------------------------------------------------------- the producer
\* What the text generator does for one prompt: the fragments it yields, how
\* it fails (not at all, by the stream throwing after the fragments, or by
\* the final response rejecting after the stream ended), and its final text.
FragTexts == {<<>>, <<"a">>, <<" ">>}

FinalTexts == {<<"a">>, <<"z">>}

FragSeqs == UNION {[1..k -> FragTexts] : k \in 0..MaxFrags}

Plans ==
  [frags : FragSeqs, fail : {"none", "stream", "response"}, final : FinalTexts]

NoPlan == [frags |-> <<>>, fail |-> "idle", final |-> <<>>]

\* a producer that has not yet decided how it goes on
OpenPlan == [frags |-> <<>>, fail |-> "open", final |-> <<>>]

ProducerMessage == <<"boom">>

\* ------------------------------------------------------------------ events
Message(partial) ==
  [type |-> "message", cls |-> "none", code |-> "none", text |-> partial]

Result(completion) ==
  [type |-> "result", cls |-> "none", code |-> "none", text |-> completion]

HttpsError(code, message) ==
  [type |-> "error", cls |-> "HttpsError", code |-> code, text |-> message]

TypeError ==
  [type |-> "error", cls |-> "TypeError", code |-> "none",
   text |-> <<"Cannot read properties of null">>]

Calls == {"ns", "st"}

VARIABLES
  req,        \* per call: the request (data, acceptsStreaming)
  plan,       \* per call: what the producer does for this call's prompt
  spc,        \* per call: where the handler is
  mode,       \* per call: the branch taken at line 51 ("none" before it)
  started,    \* per call: how often a producer operation was invoked
  pulled,     \* per call: fragments taken from the producer's stream
  chunk,      \* per call: the fragment held by the loop body, if any
  events      \* per call: what the handler emitted, in order

VARIABLES
  userInput,                  \* userInputElement.value
  nonStreamingOpInProgress,
  streamingOpInProgress,
  disabled,                   \* the three buttons' disabled (setLoading)
  outputNonStreaming,         \* outputNonStreamingDiv.textContent
  outputStreaming,            \* outputStreamingDiv.textContent
  timerNonStreaming,          \* timerNonStreamingDiv.textContent
  timerStreaming,             \* timerStreamingDiv.textContent
  nonStreamingStartTime,
  streamingStartTime,
  streamedContent,            \* local of handleStreamingRequest
  firstChunkReceived,         \* local of handleStreamingRequest
  hpc,        \* per call: where the client's request handler is
  cursor,     \* per call: events of the call the client has consumed
  issued,     \* per call: calls issued by the current handler invocation
  stopLog,    \* per call: each time-to-first-output measurement of the
              \* current handler invocation: chunks seen so far, and where
  clicks,     \* clicks that started a handler so far
  inflight,   \* per call kind: calls issued and not yet settled
  origin      \* per call kind: the click that issued the latest call

svars == <<req, plan, spc, mode, started, pulled, chunk, events>>

cvars ==
  <<userInput, nonStreamingOpInProgress, streamingOpInProgress, disabled,
    outputNonStreaming, outputStreaming, timerNonStreaming, timerStreaming,
    nonStreamingStartTime, streamingStartTime, streamedContent,
    firstChunkReceived, hpc, cursor, issued, stopLog, clicks, inflight,
    origin>>

nsvars ==
  <<nonStreamingOpInProgress, outputNonStreaming, timerNonStreaming,
    nonStreamingStartTime>>

stvars ==
  <<streamingOpInProgress, outputStreaming, timerStreaming,
    streamingStartTime, streamedContent, firstChunkReceived>>

vars == <<svars, cvars>>

NoChunk == [has |-> FALSE, text |-> <<>>]

\* ------------------------------------------------------- generateCorpspeak
\* line 42: typeof userInput !== "string" || !userInput.trim()
InvalidPrompt(input) ==
  input.t # "string" \/ ~Truthy(Trim(input.v))

Emit(c, e) == events' = [events EXCEPT ![c] = Append(@, e)]

Goto(c, l) == spc' = [spc EXCEPT ![c] = l]

IsTerminal(e) == e.type \in {"result", "error"}

IsMessage(e) == e.type = "message"

Terminals(c) == Len(SelectSeq(events[c], IsTerminal))

\* the partial texts sent by the call, in the order sent
Partials(c) ==
  LET ms == SelectSeq(events[c], IsMessage)
  IN [i \in 1..Len(ms) |-> ms[i].text]

LastEvent(c) == events[c][Len(events[c])]

RECURSIVE Concat(_)
Concat(ss) == IF ss = <<>> THEN <<>> ELSE Head(ss) \o Concat(Tail(ss))

\* Faulty variant of HandlerStart: the branch at line 51 ignores req.acceptsStreaming
HandlerStart_AlwaysStream(c) ==
  /\ spc[c] = "start"
  /\ IF req[c].data.t = "null"
     THEN /\ Emit(c, TypeError)
          /\ Goto(c, "done")
          /\ UNCHANGED <<mode, started>>
     ELSE IF InvalidPrompt(req[c].data.prompt)
     THEN /\ Emit(c, HttpsError("invalid-argument", <<"non-empty prompt">>))
          /\ Goto(c, "done")
          /\ UNCHANGED <<mode, started>>
     ELSE /\ mode' = [mode EXCEPT ![c] = "streaming"]
          /\ started' = [started EXCEPT ![c] = @ + 1]
          /\ Goto(c, "await_next")
          /\ UNCHANGED events
  /\ UNCHANGED <<req, plan, pulled, chunk>>
  /\ UNCHANGED cvars

\* lines 41-56 / 41-74: up to the first suspension of the handler
HandlerStart(c) ==
  /\ spc[c] = "start"
  /\ IF req[c].data.t = "null"
     THEN \* line 41: req.data.prompt on null throws before the validation
          /\ Emit(c, TypeError)
          /\ Goto(c, "done")
          /\ UNCHANGED <<mode, started>>
     ELSE IF InvalidPrompt(req[c].data.prompt)
     THEN /\ Emit(c, HttpsError("invalid-argument", <<"non-empty prompt">>))
          /\ Goto(c, "done")
          /\ UNCHANGED <<mode, started>>
     ELSE IF req[c].acceptsStreaming
     THEN /\ mode' = [mode EXCEPT ![c] = "streaming"]
          /\ started' = [started EXCEPT ![c] = @ + 1]
          /\ Goto(c, "await_next")
          /\ UNCHANGED events
     ELSE /\ mode' = [mode EXCEPT ![c] = "single"]
          /\ started' = [started EXCEPT ![c] = @ + 1]
          /\ Goto(c, "await_generate")
          /\ UNCHANGED events
  /\ UNCHANGED <<req, plan, pulled, chunk>>
  /\ UNCHANGED cvars

\* line 57: the stream yields its next fragment
StreamYield(c) ==
  /\ spc[c] = "await_next"
  /\ pulled[c] < Len(plan[c].frags)
  /\ pulled' = [pulled EXCEPT ![c] = @ + 1]
  /\ chunk' = [chunk EXCEPT ![c] =
                 [has |-> TRUE, text |-> plan[c].frags[pulled[c] + 1]]]
  /\ Goto(c, "send")
  /\ UNCHANGED <<req, plan, mode, started, events>>
  /\ UNCHANGED cvars

\* Faulty variant of SendChunk: a fragment that is blank after trimming is not sent
SendChunk_SkipEmpty(c) ==
  /\ spc[c] = "send"
  /\ IF Truthy(Trim(chunk[c].text))
     THEN Emit(c, Message(chunk[c].text))
     ELSE UNCHANGED events
  /\ chunk' = [chunk EXCEPT ![c] = NoChunk]
  /\ Goto(c, "await_next")
  /\ UNCHANGED <<req, plan, mode, started, pulled>>
  /\ UNCHANGED cvars

\* line 58: res.sendChunk({ partial: chunk.text })
SendChunk(c) ==
  /\ spc[c] = "send"
  /\ Emit(c, Message(chunk[c].text))
  /\ chunk' = [chunk EXCEPT ![c] = NoChunk]
  /\ Goto(c, "await_next")
  /\ UNCHANGED <<req, plan, mode, started, pulled>>
  /\ UNCHANGED cvars

\* Faulty variant of StreamEnd: the loop is left after the first fragment
StreamEnd_Early(c) ==
  /\ spc[c] = "await_next"
  /\ pulled[c] >= 1 \/ pulled[c] = Len(plan[c].frags)
  /\ plan[c].fail \in {"none", "response"}
  /\ Goto(c, "await_response")
  /\ UNCHANGED <<req, plan, mode, started, pulled, chunk, events>>
  /\ UNCHANGED cvars

\* line 57: the stream is exhausted; line 61 awaits the response
StreamEnd(c) ==
  /\ spc[c] = "await_next"
  /\ pulled[c] = Len(plan[c].frags)
  /\ plan[c].fail \in {"none", "response"}
  /\ Goto(c, "await_response")
  /\ UNCHANGED <<req, plan, mode, started, pulled, chunk, events>>
  /\ UNCHANGED cvars

\* Faulty variant of StreamThrow: the catch swallows the stream's error and the
\* handler goes on to return the response
StreamThrow_Resume(c) ==
  /\ spc[c] = "await_next"
  /\ pulled[c] = Len(plan[c].frags)
  /\ plan[c].fail = "stream"
  /\ Goto(c, "await_response")
  /\ UNCHANGED <<req, plan, mode, started, pulled, chunk, events>>
  /\ UNCHANGED cvars

\* line 57 throws; lines 63-68
StreamThrow(c) ==
  /\ spc[c] = "await_next"
  /\ pulled[c] = Len(plan[c].frags)
  /\ plan[c].fail = "stream"
  /\ Emit(c, HttpsError("internal",
                        <<"Streaming generation failed: ">> \o ProducerMessage))
  /\ Goto(c, "done")
  /\ UNCHANGED <<req, plan, mode, started, pulled, chunk>>
  /\ UNCHANGED cvars

\* Faulty variant of ResponseSettle: the catch logs the rejection and does not
\* rethrow
ResponseSettle_Swallow(c) ==
  /\ spc[c] = "await_response"
  /\ IF plan[c].fail = "response"
     THEN UNCHANGED events
     ELSE Emit(c, Result(plan[c].final))
  /\ Goto(c, "done")
  /\ UNCHANGED <<req, plan, mode, started, pulled, chunk>>
  /\ UNCHANGED cvars

\* Faulty variant of ResponseSettle: the completion is built from the fragments sent
ResponseSettle_Concat(c) ==
  /\ spc[c] = "await_response"
  /\ IF plan[c].fail = "response"
     THEN Emit(c, HttpsError("internal",
                   <<"Streaming generation failed: ">> \o ProducerMessage))
     ELSE Emit(c, Result(Concat(Partials(c))))
  /\ Goto(c, "done")
  /\ UNCHANGED <<req, plan, mode, started, pulled, chunk>>
  /\ UNCHANGED cvars

\* lines 60-62, or line 61 rejects and lines 63-68
ResponseSettle(c) ==
  /\ spc[c] = "await_response"
  /\ IF plan[c].fail = "response"
     THEN Emit(c, HttpsError("internal",
                   <<"Streaming generation failed: ">> \o ProducerMessage))
     ELSE Emit(c, Result(plan[c].final))
  /\ Goto(c, "done")
  /\ UNCHANGED <<req, plan, mode, started, pulled, chunk>>
  /\ UNCHANGED cvars

\* Faulty variant of GenerateSettle: a failed generation is tried once more
GenerateSettle_Retry(c) ==
  /\ spc[c] = "await_generate"
  /\ plan[c].fail # "open"
  /\ IF plan[c].fail # "none" /\ started[c] < 2
     THEN /\ started' = [started EXCEPT ![c] = @ + 1]
          /\ UNCHANGED <<events, spc>>
     ELSE /\ IF plan[c].fail # "none"
             THEN Emit(c, HttpsError("internal",
                     <<"Non-streaming generation failed: ">> \o ProducerMessage))
             ELSE Emit(c, Result(plan[c].final))
          /\ Goto(c, "done")
          /\ UNCHANGED started
  /\ UNCHANGED <<req, plan, mode, pulled, chunk>>
  /\ UNCHANGED cvars

\* lines 72-77, or line 72 rejects and lines 78-83
GenerateSettle(c) ==
  /\ spc[c] = "await_generate"
  /\ plan[c].fail # "open"
  /\ IF plan[c].fail # "none"
     THEN Emit(c, HttpsError("internal",
                   <<"Non-streaming generation failed: ">> \o ProducerMessage))
     ELSE Emit(c, Result(plan[c].final))
  /\ Goto(c, "done")
  /\ UNCHANGED <<req, plan, mode, started, pulled, chunk>>
  /\ UNCHANGED cvars

\* The producer, asked for its next output, decides it: one more fragment,
\* or how it ends (ai.generateStream at line 54, ai.generate at line 72).
Produce(c) ==
  /\ plan[c].fail = "open"
  /\ \/ /\ spc[c] = "await_next"
        /\ pulled[c] = Len(plan[c].frags)
        /\ \/ /\ Len(plan[c].frags) < MaxFrags
              /\ \E t \in FragTexts :
                   plan' = [plan EXCEPT ![c].frags = Append(@, t)]
           \/ \E k \in {"none", "stream", "response"}, f \in FinalTexts :
                plan' = [plan EXCEPT ![c].fail = k, ![c].final = f]
     \/ /\ spc[c] = "await_generate"
        /\ \E k \in {"none", "response"}, f \in FinalTexts :
             plan' = [plan EXCEPT ![c].fail = k, ![c].final = f]
  /\ UNCHANGED <<req, spc, mode, started, pulled, chunk, events>>
  /\ UNCHANGED cvars

ServerStep(c) ==
  \/ HandlerStart(c)
  \/ StreamYield(c)
  \/ SendChunk(c)
  \/ StreamEnd(c)
  \/ StreamThrow(c)
  \/ ResponseSettle(c)
  \/ GenerateSettle(c)

\* --------------------------------------------------- corpspeakGeneratorFlow
\* The Genkit-flow variant of the server (part_001), served as a callable by
\* onCallGenkit at lines 74-79.

\* line 42: z.object({ prompt: z.string().min(1) })
SchemaAccepts(data) ==
  /\ data.t = "object"
  /\ data.prompt.t = "string"
  /\ Len(data.prompt.v) >= 1

\* the error of an input the schema refuses
SchemaError ==
  [type |-> "error", cls |-> "GenkitError", code |-> "invalid-argument",
   text |-> <<"Schema validation failed">>]

\* the producer's own error, which the flow does not catch
ProducerError ==
  [type |-> "error", cls |-> "Error", code |-> "none",
   text |-> ProducerMessage]

\* line 59: chunk.text.replace(/\n/g, " ")
ReplaceNewlines(s) ==
  [i \in 1..Len(s) |-> IF s[i] = "\n" THEN " " ELSE s[i]]

\* line 59: the cleaned-up chunk
TextChunk(text) == Trim(ReplaceNewlines(text))

\* lines 39-56: the input is checked against the schema, then the flow
\* function runs up to the loop
FlowStart(c) ==
  /\ spc[c] = "start"
  /\ IF ~SchemaAccepts(req[c].data)
     THEN /\ Emit(c, SchemaError)
          /\ Goto(c, "done")
          /\ UNCHANGED <<mode, started>>
     ELSE /\ mode' = [mode EXCEPT ![c] =
                        IF req[c].acceptsStreaming THEN "streaming"
                        ELSE "single"]
          /\ started' = [started EXCEPT ![c] = @ + 1]
          /\ Goto(c, "await_next")
          /\ UNCHANGED events
  /\ UNCHANGED <<req, plan, pulled, chunk>>
  /\ UNCHANGED cvars

\* line 58: the stream yields its next fragment
FlowYield(c) ==
  /\ spc[c] = "await_next"
  /\ pulled[c] < Len(plan[c].frags)
  /\ pulled' = [pulled EXCEPT ![c] = @ + 1]
  /\ chunk' = [chunk EXCEPT ![c] =
                 [has |-> TRUE, text |-> plan[c].frags[pulled[c] + 1]]]
  /\ Goto(c, "send")
  /\ UNCHANGED <<req, plan, mode, started, events>>
  /\ UNCHANGED cvars

\* lines 59-68: the loop body; sendChunk reaches the caller of a call that
\* accepts streaming
FlowSend(c) ==
  /\ spc[c] = "send"
  /\ LET textChunk == TextChunk(chunk[c].text)
     IN IF Truthy(textChunk) /\ req[c].acceptsStreaming
        THEN Emit(c, Message(textChunk))
        ELSE UNCHANGED events
  /\ chunk' = [chunk EXCEPT ![c] = NoChunk]
  /\ Goto(c, "await_next")
  /\ UNCHANGED <<req, plan, mode, started, pulled>>
  /\ UNCHANGED cvars

\* line 58: the stream is exhausted; line 70 awaits the response
FlowEnd(c) ==
  /\ spc[c] = "await_next"
  /\ pulled[c] = Len(plan[c].frags)
  /\ plan[c].fail \in {"none", "response"}
  /\ Goto(c, "await_response")
  /\ UNCHANGED <<req, plan, mode, started, pulled, chunk, events>>
  /\ UNCHANGED cvars

\* line 58 throws: nothing catches it
FlowThrow(c) ==
  /\ spc[c] = "await_next"
  /\ pulled[c] = Len(plan[c].frags)
  /\ plan[c].fail = "stream"
  /\ Emit(c, ProducerError)
  /\ Goto(c, "done")
  /\ UNCHANGED <<req, plan, mode, started, pulled, chunk>>
  /\ UNCHANGED cvars

\* line 70: return { corpspeak: (await response).text }, or the await
\* rejects
FlowResponse(c) ==
  /\ spc[c] = "await_response"
  /\ IF plan[c].fail = "response"
     THEN Emit(c, ProducerError)
     ELSE Emit(c, Result(plan[c].final))
  /\ Goto(c, "done")
  /\ UNCHANGED <<req, plan, mode, started, pulled, chunk>>
  /\ UNCHANGED cvars

FlowStep(c) ==
  \/ FlowStart(c)
  \/ FlowYield(c)
  \/ FlowSend(c)
  \/ FlowEnd(c)
  \/ FlowThrow(c)
  \/ FlowResponse(c)

\* ------------------------------------------------------------------ client
AwaitingText == <<"(Awaiting strategic imperatives...)">>

PreparingText == <<"(Preparing for dynamic paradigm shifts...)">>

LeveragingText == <<"Leveraging core competencies...">>

InitiatingText == <<"Initiating proactive synergy stream...">>

\* samplePrompts, lines 58-69: none of them is blank
SamplePrompts == {<<"a">>}

\* updateTimerDisplay, lines 82-96: the text it writes
TimerText(startTimeValue, status) ==
  IF status = "stopped" /\ startTimeValue # "undefined" THEN "stopped"
  ELSE IF status = "running" THEN "running"
  ELSE "reset"

\* updateTimerDisplay, lines 87-89: whether it measures performance.now()
\* against the start time
Measures(startTimeValue, status) ==
  status = "stopped" /\ startTimeValue # "undefined"

\* the measurements of call c after updateTimerDisplay(.., start, "stopped")
\* ran with n chunks seen, at the place named
Measured(c, startTimeValue, n, place) ==
  IF Measures(startTimeValue, "stopped")
  THEN Append(stopLog[c], [chunks |-> n, at |-> place])
  ELSE stopLog[c]

\* !promptText.trim(), lines 100 and 141
Blank(promptText) == ~Truthy(Trim(promptText))

\* generateCorpspeak(...) at line 113 and generateCorpspeak.stream(...) at
\* line 157: the handlers in H run with promptText; each one that passes its
\* blank check issues one call, served by generateCorpspeak on the server.
Invoke(H, promptText) ==
  LET S == IF Blank(promptText) THEN {} ELSE H
  IN /\ req' = [c \in Calls |->
                  IF c \in S
                  THEN [data |-> [t |-> "object", prompt |-> Str(promptText)],
                        acceptsStreaming |-> (c = "st")]
                  ELSE req[c]]
     /\ plan' = [c \in Calls |-> IF c \in S THEN OpenPlan ELSE plan[c]]
     /\ spc' = [c \in Calls |-> IF c \in S THEN "start" ELSE spc[c]]
     /\ mode' = [c \in Calls |-> IF c \in S THEN "none" ELSE mode[c]]
     /\ started' = [c \in Calls |-> IF c \in S THEN 0 ELSE started[c]]
     /\ pulled' = [c \in Calls |-> IF c \in S THEN 0 ELSE pulled[c]]
     /\ chunk' = [c \in Calls |-> IF c \in S THEN NoChunk ELSE chunk[c]]
     /\ events' = [c \in Calls |-> IF c \in S THEN <<>> ELSE events[c]]
     /\ cursor' = [c \in Calls |-> IF c \in S THEN 0 ELSE cursor[c]]
     /\ hpc' = [c \in Calls |->
                  IF c \notin S THEN hpc[c]
                  ELSE IF c = "ns" THEN "await_call" ELSE "await_stream"]
     /\ issued' = [c \in Calls |->
                     IF c \in S THEN 1 ELSE IF c \in H THEN 0 ELSE issued[c]]
     /\ stopLog' = [c \in Calls |-> IF c \in H THEN <<>> ELSE stopLog[c]]
     /\ inflight' = [c \in Calls |->
                       IF c \in S THEN inflight[c] + 1 ELSE inflight[c]]
     /\ origin' = [c \in Calls |->
                     IF c \in S
                     THEN [click |-> clicks + 1,
                           kind |-> IF H = Calls THEN "lucky" ELSE c]
                     ELSE origin[c]]

\* handleNonStreamingRequest, lines 99-113, up to the await
NonStreamingBegin(promptText) ==
  IF Blank(promptText)
  THEN UNCHANGED nsvars
  ELSE /\ nonStreamingOpInProgress' = TRUE
       /\ outputNonStreaming' = LeveragingText
       /\ nonStreamingStartTime' = "set"
       /\ timerNonStreaming' = TimerText("set", "running")

\* handleStreamingRequest, lines 140-157, up to the await
StreamingBegin(promptText) ==
  IF Blank(promptText)
  THEN UNCHANGED stvars
  ELSE /\ streamingOpInProgress' = TRUE
       /\ outputStreaming' = InitiatingText
       /\ streamedContent' = <<>>
       /\ streamingStartTime' = "set"
       /\ timerStreaming' = TimerText("set", "running")
       /\ firstChunkReceived' = FALSE

\* lines 100-102: a blank prompt re-enables the buttons unless the other
\* operation is in progress
LoadingAfterBlank(isDisabled, promptText, otherInProgress) ==
  IF Blank(promptText) /\ ~otherInProgress THEN FALSE ELSE isDisabled

\* line 198: if (nonStreamingOpInProgress || streamingOpInProgress) return
NonStreamingRefused == nonStreamingOpInProgress \/ streamingOpInProgress

\* line 204
StreamingRefused == nonStreamingOpInProgress \/ streamingOpInProgress

\* line 210
LuckyRefused == nonStreamingOpInProgress \/ streamingOpInProgress

\* Faulty variant of ClickNonStreaming: the listener looks at its own flag
\* only
ClickNonStreaming_OwnFlag ==
  IF nonStreamingOpInProgress
  THEN UNCHANGED vars
  ELSE /\ clicks < MaxClicks + 1
       /\ clicks' = clicks + 1
       /\ \E s \in Texts(MaxLen) :
            /\ userInput' = s
            /\ NonStreamingBegin(s)
            /\ Invoke({"ns"}, s)
            /\ disabled' = LoadingAfterBlank(TRUE, s, streamingOpInProgress)
            /\ UNCHANGED stvars

\* btnNonStreaming click, lines 197-201: the listener, run for a click
\* event on the button
ClickNonStreaming ==
  IF NonStreamingRefused
  THEN UNCHANGED vars
  ELSE /\ clicks < MaxClicks
       /\ clicks' = clicks + 1
       /\ \E s \in Texts(MaxLen) :
            /\ userInput' = s
            /\ NonStreamingBegin(s)
            /\ Invoke({"ns"}, s)
            /\ disabled' = LoadingAfterBlank(TRUE, s, streamingOpInProgress)
            /\ UNCHANGED stvars

\* btnStreaming click, lines 203-207
ClickStreaming ==
  IF StreamingRefused
  THEN UNCHANGED vars
  ELSE /\ clicks < MaxClicks
       /\ clicks' = clicks + 1
       /\ \E s \in Texts(MaxLen) :
            /\ userInput' = s
            /\ StreamingBegin(s)
            /\ Invoke({"st"}, s)
            /\ disabled' =
                 LoadingAfterBlank(TRUE, s, nonStreamingOpInProgress)
            /\ UNCHANGED nsvars

\* btnImFeelingLucky click, lines 209-245: both handlers run to their first
\* await within the click
ClickLucky ==
  IF LuckyRefused
  THEN UNCHANGED vars
  ELSE /\ clicks < MaxClicks
       /\ clicks' = clicks + 1
       /\ \E luckyPrompt \in SamplePrompts :
            /\ userInput' = luckyPrompt
            /\ NonStreamingBegin(luckyPrompt)
            /\ StreamingBegin(luckyPrompt)
            /\ Invoke({"ns", "st"}, luckyPrompt)
            /\ disabled' =
                 LoadingAfterBlank(
                   LoadingAfterBlank(TRUE, luckyPrompt, FALSE),
                   luckyPrompt, nonStreamingOpInProgress')

\* Faulty variant of NonStreamingFinally: the buttons are re-enabled whatever
\* the other operation does
NonStreamingFinally_Always ==
  /\ nonStreamingOpInProgress' = FALSE
  /\ disabled' = FALSE
  /\ inflight' = [inflight EXCEPT !["ns"] = @ - 1]

\* lines 132-137
NonStreamingFinally ==
  /\ nonStreamingOpInProgress' = FALSE
  /\ disabled' = IF ~streamingOpInProgress THEN FALSE ELSE disabled
  /\ inflight' = [inflight EXCEPT !["ns"] = @ - 1]

\* Faulty variant of StreamingFinally: the flag is cleared and the buttons
\* are left as they are
StreamingFinally_NoEnable ==
  /\ streamingOpInProgress' = FALSE
  /\ disabled' = disabled
  /\ inflight' = [inflight EXCEPT !["st"] = @ - 1]

\* lines 187-193
StreamingFinally ==
  /\ streamingOpInProgress' = FALSE
  /\ disabled' = IF ~nonStreamingOpInProgress THEN FALSE ELSE disabled
  /\ inflight' = [inflight EXCEPT !["st"] = @ - 1]

\* Faulty variant of NonStreamingSettle: the handler stops the timer of the
\* streaming operation as well
NonStreamingSettle_CrossTalk ==
  /\ hpc["ns"] = "await_call"
  /\ spc["ns"] = "done"
  /\ LET e == events["ns"][Len(events["ns"])]
     IN /\ timerNonStreaming' =
             IF nonStreamingOpInProgress
             THEN TimerText(nonStreamingStartTime, "stopped")
             ELSE timerNonStreaming
        /\ timerStreaming' = TimerText(streamingStartTime, "stopped")
        /\ stopLog' = [stopLog EXCEPT !["ns"] =
             IF nonStreamingOpInProgress
             THEN Measured("ns", nonStreamingStartTime, 0,
                           IF e.type = "result" THEN "result" ELSE "catch")
             ELSE @]
        /\ outputNonStreaming' =
             IF e.type = "result" THEN e.text ELSE <<"Error: ">> \o e.text
  /\ NonStreamingFinally
  /\ cursor' = [cursor EXCEPT !["ns"] = Len(events["ns"])]
  /\ hpc' = [hpc EXCEPT !["ns"] = "idle"]
  /\ UNCHANGED <<svars, userInput, streamingOpInProgress, outputStreaming,
                 streamingStartTime, streamedContent, firstChunkReceived,
                 nonStreamingStartTime, issued, clicks, origin>>

\* line 113 settles: lines 114-121 or 122-131, then 132-137
NonStreamingSettle ==
  /\ hpc["ns"] = "await_call"
  /\ spc["ns"] = "done"
  /\ LET e == events["ns"][Len(events["ns"])]
     IN /\ timerNonStreaming' =
             IF nonStreamingOpInProgress
             THEN TimerText(nonStreamingStartTime, "stopped")
             ELSE timerNonStreaming
        /\ stopLog' = [stopLog EXCEPT !["ns"] =
             IF nonStreamingOpInProgress
             THEN Measured("ns", nonStreamingStartTime, 0,
                           IF e.type = "result" THEN "result" ELSE "catch")
             ELSE @]
        /\ outputNonStreaming' =
             IF e.type = "result" THEN e.text ELSE <<"Error: ">> \o e.text
  /\ NonStreamingFinally
  /\ cursor' = [cursor EXCEPT !["ns"] = Len(events["ns"])]
  /\ hpc' = [hpc EXCEPT !["ns"] = "idle"]
  /\ UNCHANGED <<svars, stvars, userInput, nonStreamingStartTime, issued,
                 clicks, origin>>

\* line 157 resolves; lines 159-160
StreamOpened ==
  /\ hpc["st"] = "await_stream"
  /\ streamedContent' = <<>>
  /\ outputStreaming' = <<>>
  /\ hpc' = [hpc EXCEPT !["st"] = "loop"]
  /\ UNCHANGED <<svars, nsvars, userInput, disabled, streamingOpInProgress,
                 timerStreaming, streamingStartTime, firstChunkReceived,
                 cursor, issued, stopLog, clicks, inflight, origin>>

\* the next event of the streaming call the client has not consumed yet
HasNext == cursor["st"] < Len(events["st"])

NextEvent == events["st"][cursor["st"] + 1]

\* Faulty variant of ChunkArrives: the content is replaced by the partial
\* instead of being extended by it
ChunkArrives_Replace ==
  /\ hpc["st"] = "loop"
  /\ HasNext
  /\ NextEvent.type = "message"
  /\ LET partial == NextEvent.text
         first == ~firstChunkReceived /\ Truthy(partial)
         content == IF Truthy(partial) THEN partial ELSE streamedContent
     IN /\ timerStreaming' =
             IF first THEN TimerText(streamingStartTime, "stopped")
             ELSE timerStreaming
        /\ stopLog' = [stopLog EXCEPT !["st"] =
             IF first
             THEN Measured("st", streamingStartTime, cursor["st"] + 1, "chunk")
             ELSE @]
        /\ firstChunkReceived' = (firstChunkReceived \/ first)
        /\ streamedContent' = content
        /\ outputStreaming' = Trim(content)
  /\ cursor' = [cursor EXCEPT !["st"] = @ + 1]
  /\ UNCHANGED <<svars, nsvars, userInput, disabled, streamingOpInProgress,
                 streamingStartTime, hpc, issued, clicks, inflight, origin>>

\* lines 162-172: one iteration of the loop
ChunkArrives ==
  /\ hpc["st"] = "loop"
  /\ HasNext
  /\ NextEvent.type = "message"
  /\ LET partial == NextEvent.text
         first == ~firstChunkReceived /\ Truthy(partial)
         content == IF Truthy(partial)
                    THEN streamedContent \o partial
                    ELSE streamedContent
     IN /\ timerStreaming' =
             IF first THEN TimerText(streamingStartTime, "stopped")
             ELSE timerStreaming
        /\ stopLog' = [stopLog EXCEPT !["st"] =
             IF first
             THEN Measured("st", streamingStartTime, cursor["st"] + 1, "chunk")
             ELSE @]
        /\ firstChunkReceived' = (firstChunkReceived \/ first)
        /\ streamedContent' = content
        /\ outputStreaming' = Trim(content)
  /\ cursor' = [cursor EXCEPT !["st"] = @ + 1]
  /\ UNCHANGED <<svars, nsvars, userInput, disabled, streamingOpInProgress,
                 streamingStartTime, hpc, issued, clicks, inflight, origin>>

\* The loop ends because the terminal event arrived; lines 174-178 up to the
\* await.  A failed call either ends the fragment sequence and rejects the
\* final result (here, then DataSettles) or makes the iteration itself
\* throw (StreamThrows).
StreamEnds ==
  /\ hpc["st"] = "loop"
  /\ HasNext
  /\ NextEvent.type \in {"result", "error"}
  /\ LET stop == ~firstChunkReceived /\ streamingOpInProgress
     IN /\ timerStreaming' =
             IF stop THEN TimerText(streamingStartTime, "stopped")
             ELSE timerStreaming
        /\ stopLog' = [stopLog EXCEPT !["st"] =
             IF stop
             THEN Measured("st", streamingStartTime, cursor["st"], "end")
             ELSE @]
  /\ hpc' = [hpc EXCEPT !["st"] = "await_data"]
  /\ UNCHANGED <<svars, nsvars, userInput, disabled, streamingOpInProgress,
                 outputStreaming, streamingStartTime, streamedContent,
                 firstChunkReceived, cursor, issued, clicks, inflight,
                 origin>>

\* lines 181-186, then 187-193
StreamingCatch(e) ==
  /\ LET stop == ~firstChunkReceived /\ streamingOpInProgress
     IN /\ timerStreaming' =
             IF stop THEN TimerText(streamingStartTime, "stopped")
             ELSE timerStreaming
        /\ stopLog' = [stopLog EXCEPT !["st"] =
             IF stop
             THEN Measured("st", streamingStartTime, cursor["st"], "catch")
             ELSE @]
  /\ outputStreaming' = <<"Error: ">> \o e.text
  /\ StreamingFinally
  /\ cursor' = [cursor EXCEPT !["st"] = @ + 1]
  /\ hpc' = [hpc EXCEPT !["st"] = "idle"]
  /\ UNCHANGED <<svars, nsvars, userInput, streamingStartTime,
                 streamedContent, firstChunkReceived, issued, clicks,
                 origin>>

\* the iteration at line 162 throws the call's error
StreamThrows ==
  /\ hpc["st"] = "loop"
  /\ HasNext
  /\ NextEvent.type = "error"
  /\ StreamingCatch(NextEvent)

\* line 178 settles: lines 179-180, or the catch; then 187-193
DataSettles ==
  /\ hpc["st"] = "await_data"
  /\ HasNext
  /\ IF NextEvent.type = "result"
     THEN /\ outputStreaming' =
               Trim(streamedContent) \o <<"\n(Final object: ">>
                 \o NextEvent.text \o <<")">>
          /\ StreamingFinally
          /\ cursor' = [cursor EXCEPT !["st"] = @ + 1]
          /\ hpc' = [hpc EXCEPT !["st"] = "idle"]
          /\ UNCHANGED <<svars, nsvars, userInput, timerStreaming,
                         streamingStartTime, streamedContent,
                         firstChunkReceived, issued, stopLog, clicks,
                         origin>>
     ELSE StreamingCatch(NextEvent)

ClientStep ==
  \/ ClickNonStreaming
  \/ ClickStreaming
  \/ ClickLucky
  \/ NonStreamingSettle
  \/ StreamOpened
  \/ ChunkArrives
  \/ StreamEnds
  \/ StreamThrows
  \/ DataSettles

\* the page after load
ClientInit ==
  /\ userInput = <<>>
  /\ nonStreamingOpInProgress = FALSE
  /\ streamingOpInProgress = FALSE
  /\ disabled = FALSE
  /\ outputNonStreaming = AwaitingText
  /\ outputStreaming = PreparingText
  /\ timerNonStreaming = "reset"
  /\ timerStreaming = "reset"
  /\ nonStreamingStartTime = "undefined"
  /\ streamingStartTime = "undefined"
  /\ streamedContent = <<>>
  /\ firstChunkReceived = FALSE
  /\ hpc = [c \in Calls |-> "idle"]
  /\ cursor = [c \in Calls |-> 0]
  /\ issued = [c \in Calls |-> 0]
  /\ stopLog = [c \in Calls |-> <<>>]
  /\ clicks = 0
  /\ inflight = [c \in Calls |-> 0]
  /\ origin = [c \in Calls |-> [click |-> 0, kind |-> "none"]]

\* Two calls side by side on the same request data and the same
\* (deterministic) producer, one per mode.
Init ==
  /\ \E d \in DataValues :
       req = [c \in Calls |-> [data |-> d, acceptsStreaming |-> (c = "st")]]
  /\ \E p \in Plans : plan = [c \in Calls |-> p]
  /\ spc = [c \in Calls |-> "start"]
  /\ mode = [c \in Calls |-> "none"]
  /\ started = [c \in Calls |-> 0]
  /\ pulled = [c \in Calls |-> 0]
  /\ chunk = [c \in Calls |-> NoChunk]
  /\ events = [c \in Calls |-> <<>>]
  /\ ClientInit

Next == \E c \in Calls : ServerStep(c)

Spec == Init /\ [][Next]_vars

FairSpec == Init /\ [][Next]_vars /\ \A c \in Calls : WF_vars(ServerStep(c))

\* The flow variant serving the same two calls.
FlowNext == \E c \in Calls : FlowStep(c)

FlowSpec == Init /\ [][FlowNext]_vars

\* The page and the server together: no call exists until a click issues it.
SystemInit ==
  /\ req = [c \in Calls |-> [data |-> NoData, acceptsStreaming |-> FALSE]]
  /\ plan = [c \in Calls |-> NoPlan]
  /\ spc = [c \in Calls |-> "idle"]
  /\ mode = [c \in Calls |-> "none"]
  /\ started = [c \in Calls |-> 0]
  /\ pulled = [c \in Calls |-> 0]
  /\ chunk = [c \in Calls |-> NoChunk]
  /\ events = [c \in Calls |-> <<>>]
  /\ ClientInit

SystemNext ==
  \/ ClientStep
  \/ \E c \in Calls : ServerStep(c)
  \/ \E c \in Calls : Produce(c)

SystemSpec == SystemInit /\ [][SystemNext]_vars

\* Every issued call settles and every fragment stream ends: the server and
\* the producer keep going, and the awaits at lines 113, 157, 162 and 178
\* resume once what they wait for is there.  Clicks are not forced.
FairSystemSpec ==
  /\ SystemInit
  /\ [][SystemNext]_vars
  /\ \A c \in Calls : WF_vars(ServerStep(c)) /\ WF_vars(Produce(c))
  /\ WF_vars(NonStreamingSettle)
  /\ WF_vars(StreamOpened \/ ChunkArrives \/ StreamEnds \/ StreamThrows
               \/ DataSettles)

\* ------------------------------------------------- properties of the server
\* the request carries a prompt the handler accepts
ValidRequest(c) ==
  /\ req[c].data.t = "object"
  /\ req[c].data.prompt.t = "string"
  /\ Trim(req[c].data.prompt.v) # <<>>

\* the prompt is missing, not a string, or empty / whitespace-only
RejectableRequest(c) == req[c].data.t # "none" /\ ~ValidRequest(c)

\* C1: every call with a valid prompt, in either mode, never has more than
\* one terminal event (Result or error) and ends with exactly one.
C1_ExactlyOneTerminal ==
  \A c \in Calls :
    /\ [](ValidRequest(c) => Terminals(c) <= 1)
    /\ [](ValidRequest(c) => (spc[c] = "done" <=> Terminals(c) = 1))
    /\ <>[](ValidRequest(c) => (spc[c] = "done" /\ Terminals(c) = 1))

C1_Witness ==
  /\ \A c \in Calls : ValidRequest(c) /\ spc[c] = "done" /\ Terminals(c) = 1
  /\ Len(events["st"]) = 3
  /\ LastEvent("st").type = "result"
  /\ LastEvent("ns").type = "result"

\* C2: a request whose prompt is missing, not a string or blank ends with the
\* single error HttpsError('invalid-argument'), no producer operation having
\* been invoked and no fragment sent.
C2_InvalidArgument ==
  \A c \in Calls :
    RejectableRequest(c) =>
      /\ started[c] = 0
      /\ Partials(c) = <<>>
      /\ spc[c] = "done" =>
            /\ Len(events[c]) = 1
            /\ events[c][1].type = "error"
            /\ events[c][1].cls = "HttpsError"
            /\ events[c][1].code = "invalid-argument"

\* C3: when the producer fails in a streaming call, no Result is ever
\* emitted, an error is the last event and of code 'internal', and the call
\* ends with the fragments produced before the failure followed by that one
\* error.
C3_StreamFailure ==
  \A c \in Calls :
    (mode[c] = "streaming" /\ plan[c].fail # "none") =>
      /\ \A i \in 1..Len(events[c]) :
            /\ events[c][i].type # "result"
            /\ events[c][i].type = "error" =>
                  /\ i = Len(events[c])
                  /\ events[c][i].cls = "HttpsError"
                  /\ events[c][i].code = "internal"
      /\ spc[c] = "done" =>
            /\ Terminals(c) = 1
            /\ Partials(c) = plan[c].frags
            /\ LastEvent(c).type = "error"

C3_Witness ==
  /\ mode["st"] = "streaming"
  /\ plan["st"].fail = "stream"
  /\ spc["st"] = "done"
  /\ Len(Partials("st")) = 2
  /\ LastEvent("st").code = "internal"

\* C4: in a streaming call the partials sent are exactly the fragments
\* pulled from the producer, in its order, and a fragment is pulled only
\* when every fragment pulled before it has been sent.
C4_FragmentPerChunk ==
  \A c \in Calls :
    /\ chunk[c].has => spc[c] = "send"
    /\ Partials(c) =
         SubSeq(plan[c].frags, 1, pulled[c] - (IF chunk[c].has THEN 1 ELSE 0))
    /\ (mode[c] = "streaming" /\ spc[c] \in {"await_response", "done"}) =>
         Partials(c) = plan[c].frags

C4_Witness ==
  /\ mode["st"] = "streaming"
  /\ spc["st"] = "await_response"
  /\ Len(Partials("st")) = 2
  /\ Partials("st")[1] = <<>>
  /\ Partials("st")[2] # <<>>

\* C5: in a streaming call the Result is the last event, exists only once
\* the producer's stream is exhausted and every fragment sent, and carries
\* the producer's final text.
C5_ResultLast ==
  \A c \in Calls :
    mode[c] = "streaming" =>
      \A i \in 1..Len(events[c]) :
        events[c][i].type = "result" =>
          /\ i = Len(events[c])
          /\ spc[c] = "done"
          /\ pulled[c] = Len(plan[c].frags)
          /\ Partials(c) = plan[c].frags
          /\ events[c][i].text = plan[c].final

C5_Witness ==
  /\ mode["st"] = "streaming"
  /\ spc["st"] = "done"
  /\ LastEvent("st").type = "result"
  /\ Len(Partials("st")) = 2
  /\ LastEvent("st").text # Concat(Partials("st"))

\* C6: a call that does not accept streaming never sends a fragment, has a
\* terminal event only once the producer has completed, and the branch taken
\* on req.acceptsStreaming is never changed during the call.
C6_State ==
  \A c \in Calls :
    (req[c].data.t # "none" /\ ~req[c].acceptsStreaming) =>
      /\ Partials(c) = <<>>
      /\ mode[c] # "streaming"
      /\ Len(events[c]) <= 1
      /\ (ValidRequest(c) /\ events[c] # <<>>) =>
            /\ spc[c] = "done"
            /\ started[c] = 1
            /\ mode[c] = "single"

C6_Step ==
  \A c \in Calls :
    (mode[c] # "none" /\ req'[c] = req[c]) => mode'[c] = mode[c]

\* C6: the state part above in every state, and the branch taken at line 51
\* unchanged by every step of the call.
C6_SingleShot == [](C6_State) /\ [][C6_Step]_vars

C6_Witness ==
  /\ ~req["ns"].acceptsStreaming
  /\ ValidRequest("ns")
  /\ spc["ns"] = "done"
  /\ events["ns"] = <<Result(plan["ns"].final)>>
  /\ Len(plan["ns"].frags) = 2

\* C7: for a valid prompt and one deterministic producer, the call that
\* accepts streaming and the call that does not end alike: both with a
\* Result of the same completion, or both with an error.
C7_SameCompletion ==
  (/\ \A c \in Calls : ValidRequest(c) /\ spc[c] = "done"
   /\ req["ns"].data = req["st"].data
   /\ plan["ns"] = plan["st"]
   /\ ~req["ns"].acceptsStreaming
   /\ req["st"].acceptsStreaming) =>
     /\ LastEvent("ns").type = LastEvent("st").type
     /\ LastEvent("ns").type = "result" =>
           LastEvent("ns").text = LastEvent("st").text

C7_Witness ==
  /\ \A c \in Calls : ValidRequest(c) /\ spc[c] = "done"
  /\ plan["ns"] = plan["st"]
  /\ LastEvent("ns").type = "result"
  /\ LastEvent("st").type = "result"
  /\ Concat(Partials("st")) # LastEvent("st").text
  /\ Len(Partials("st")) = 2

\* ------------------------------------------ properties of page and server
\* the Fragment Events the streaming handler has taken from its stream
Received ==
  Len(SelectSeq(SubSeq(events["st"], 1, cursor["st"]), IsMessage))

\* the client handler of call c has consumed the call's error
HandlerFailed(c) ==
  /\ hpc[c] = "idle"
  /\ issued[c] >= 1
  /\ events[c] # <<>>
  /\ LastEvent(c).type = "error"

C9_MeasuredOnce == \A c \in Calls : Len(stopLog[c]) <= 1

\* C10: once the streaming handler has taken a Fragment Event, whatever its
\* partial, the timer was stopped and its first stop was at the first
\* Fragment Event; with no Fragment Event the timer is stopped when the end
\* of the stream or the terminal event is observed.
C10_FirstFragmentStops ==
  /\ (hpc["st"] \in {"loop", "await_data"} /\ Received >= 1) =>
       /\ stopLog["st"] # <<>>
       /\ stopLog["st"][1] = [chunks |-> 1, at |-> "chunk"]
  /\ (hpc["st"] = "await_data" /\ Received = 0) =>
       /\ stopLog["st"] # <<>>
       /\ stopLog["st"][1].chunks = 0
       /\ stopLog["st"][1].at = "end"

\* text s is the beginning of text t
IsPrefix(s, t) == Len(s) <= Len(t) /\ SubSeq(t, 1, Len(s)) = s

\* text s occurs in text t
Contains(t, s) ==
  \E i \in 0..Len(t) : i + Len(s) <= Len(t) /\ SubSeq(t, i + 1, i + Len(s)) = s

\* the partials of the Fragment Events the streaming handler has taken
ReceivedPartials ==
  LET taken == SelectSeq(SubSeq(events["st"], 1, cursor["st"]), IsMessage)
  IN [i \in 1..Len(taken) |-> taken[i].text]

\* the streaming handler is in its loop and this step takes one fragment
TakesFragment ==
  /\ hpc["st"] = "loop"
  /\ hpc'["st"] = "loop"
  /\ cursor'["st"] = cursor["st"] + 1

C11_State ==
  hpc["st"] \in {"loop", "await_data"} =>
    /\ streamedContent = Concat(ReceivedPartials)
    /\ outputStreaming = Trim(streamedContent)

C11_Step ==
  TakesFragment =>
    /\ streamedContent' = streamedContent \o events["st"][cursor["st"] + 1].text
    /\ IsPrefix(outputStreaming, outputStreaming')

\* C11: while fragments arrive, the accumulated content after each fragment
\* is the previous content followed by that fragment's partial, so it is the
\* concatenation of the partials in arrival order, and every value shown in
\* the streaming output is a prefix of the next value shown.
C11_PrefixBuildUp == [](C11_State) /\ [][C11_Step]_vars

C11_Witness ==
  /\ hpc["st"] = "loop"
  /\ Received = 2
  /\ streamedContent = <<" ", "a">>
  /\ outputStreaming = <<"a">>

\* C12: after an incremental call failed with fragments delivered before the
\* error, the streaming output still contains the text built from those
\* fragments, and it shows no final completion.
C12_FragmentsKept ==
  (HandlerFailed("st") /\ Received >= 1) =>
    /\ Contains(outputStreaming, Trim(Concat(ReceivedPartials)))
    /\ ~Contains(outputStreaming, <<"\n(Final object: ">>)

\* this step is taken by the handler of call c after its first await
HandlerStep(c) ==
  /\ clicks' = clicks
  /\ hpc'[c] # hpc[c] \/ cursor'[c] # cursor[c]

C13_Step ==
  /\ HandlerStep("ns") =>
       UNCHANGED <<outputStreaming, timerStreaming, streamingStartTime,
                   streamedContent, firstChunkReceived, stopLog["st"]>>
  /\ HandlerStep("st") =>
       UNCHANGED <<outputNonStreaming, timerNonStreaming,
                   nonStreamingStartTime, stopLog["ns"]>>

\* both calls of one lucky click have been issued
Concurrent ==
  /\ origin["ns"].kind = "lucky"
  /\ origin["st"] = origin["ns"]
  /\ origin["ns"].click = clicks

C13_State ==
  Concurrent =>
    /\ hpc["ns"] = "idle" =>
         /\ outputNonStreaming =
              IF LastEvent("ns").type = "result"
              THEN LastEvent("ns").text
              ELSE <<"Error: ">> \o LastEvent("ns").text
         /\ timerNonStreaming = "stopped"
         /\ Len(stopLog["ns"]) = 1
    /\ hpc["ns"] = "await_call" =>
         /\ outputNonStreaming = LeveragingText
         /\ timerNonStreaming = "running"
    /\ hpc["st"] = "idle" =>
         /\ outputStreaming =
              IF LastEvent("st").type = "result"
              THEN Trim(Concat(ReceivedPartials)) \o <<"\n(Final object: ">>
                     \o LastEvent("st").text \o <<")">>
              ELSE <<"Error: ">> \o LastEvent("st").text
         /\ timerStreaming = "stopped"
    /\ hpc["st"] = "await_stream" =>
         /\ outputStreaming = InitiatingText
         /\ timerStreaming = "running"
    /\ (hpc["st"] \in {"loop", "await_data"} /\ stopLog["st"] = <<>>) =>
         timerStreaming = "running"

\* C13: with both calls of a lucky click in progress, under every
\* interleaving, a step of one handler leaves the other operation's output,
\* timer and start time alone; each output shows only its own call's
\* progress, completion or error; and each timer runs until its own call
\* stops it.
C13_NoCrossTalk == [](C13_State) /\ [][C13_Step]_vars

C13_Witness ==
  /\ Concurrent
  /\ hpc["ns"] = "idle"
  /\ hpc["st"] = "idle"
  /\ LastEvent("ns").type = "error"
  /\ LastEvent("st").type = "result"
  /\ Received = 2
  /\ outputNonStreaming # outputStreaming

\* C14: a request to start a call is refused exactly while a call of the
\* same kind is in flight; a call of the other kind does not block it.
C14_OwnGate ==
  /\ NonStreamingRefused <=> nonStreamingOpInProgress
  /\ StreamingRefused <=> streamingOpInProgress

\* this step is a click whose handler runs with a blank prompt
BlankClick == clicks' = clicks + 1 /\ Blank(userInput')

C15_Step ==
  BlankClick =>
    /\ \A c \in Calls : inflight'[c] = 0 /\ started'[c] = 0
    /\ \/ Head(outputNonStreaming') = "Error: "
       \/ Head(outputStreaming') = "Error: "

\* C15: a handler run with an empty or whitespace-only prompt issues no call
\* and starts no producer, and an error is shown to the caller.
C15_BlankRejected == [][C15_Step]_vars

\* C18: the buttons are enabled only when no operation is in progress; when
\* the first of two concurrent calls finishes they stay disabled.
C18_EnabledOnlyIdle ==
  /\ ~disabled => (~nonStreamingOpInProgress /\ ~streamingOpInProgress)
  /\ (Concurrent /\ hpc["ns"] # hpc["st"] /\ "idle" \in {hpc["ns"], hpc["st"]})
       => disabled

C18_Witness ==
  /\ Concurrent
  /\ hpc["ns"] = "idle"
  /\ ~nonStreamingOpInProgress
  /\ streamingOpInProgress
  /\ disabled

\* C16: in a call of the flow variant that accepts streaming, the Fragment
\* Events sent so far are, one for one and in order, the fragments taken from
\* the producer and handled by the loop, empty and whitespace-only ones
\* included.
C16_FlowFragmentPerChunk ==
  \A c \in Calls :
    mode[c] = "streaming" =>
      LET handled == pulled[c] - (IF chunk[c].has THEN 1 ELSE 0)
      IN /\ Len(Partials(c)) = handled
         /\ \A i \in 1..handled :
              i <= Len(Partials(c)) => Partials(c)[i] = plan[c].frags[i]

\* the request carries a string prompt that is empty or whitespace-only
BlankPrompt(c) ==
  /\ req[c].data.t = "object"
  /\ req[c].data.prompt.t = "string"
  /\ Blank(req[c].data.prompt.v)

\* C17: the flow variant rejects a whitespace-only prompt as it rejects the
\* empty one: the producer is not invoked, no fragment is sent, and the call
\* ends with an invalid-argument error.
C17_WhitespaceRejected ==
  \A c \in Calls :
    BlankPrompt(c) =>
      /\ started[c] = 0
      /\ Partials(c) = <<>>
      /\ spc[c] = "done" =>
            /\ Len(events[c]) = 1
            /\ LastEvent(c).type = "error"
            /\ LastEvent(c).code = "invalid-argument"

\* the page is idle: no flag set, buttons enabled
Unlocked ==
  ~disabled /\ ~nonStreamingOpInProgress /\ ~streamingOpInProgress

C20_State ==
  /\ \A c \in Calls : inflight[c] <= 1
  /\ inflight["ns"] = 1 <=> nonStreamingOpInProgress
  /\ inflight["st"] = 1 <=> streamingOpInProgress
  /\ (\A c \in Calls : inflight[c] = 1) =>
       /\ origin["ns"] = origin["st"]
       /\ origin["ns"].kind = "lucky"

C20_Step ==
  (\E c \in Calls : inflight'[c] > inflight[c]) =>
    /\ ~nonStreamingOpInProgress
    /\ ~streamingOpInProgress
    /\ \A c \in Calls : inflight[c] = 0

====
